---- MODULE Spec2Model ----
(***************************************************************************)
(* Model of the lattice slice planner (intelligent_slicer.py) together     *)
(* with the shape of the lattice records it consumes                       *)
(* (generate_flag_lattice.py).                                             *)
(*                                                                         *)
(* Conventions                                                             *)
(*  - A Python string is a sequence of tokens.  A coordinate is spelled    *)
(*    character by character (<<"L","0",".","0",".","0",".","0">>) so that *)
(*    glob matching can look inside it; separators and suffixes ("_",      *)
(*    ".log", ".result") and names that the code never looks inside        *)
(*    ("default", "dev") are single tokens.  Concatenation is \o.          *)
(*  - A Python float is an exact rational [n, d] with d > 0 in lowest      *)
(*    terms.  statistics.mean sums exactly, so the mean of a list does not *)
(*    depend on the order of the list, as in the model.                    *)
(*  - Build durations are whole seconds.                                   *)
(***************************************************************************)
EXTENDS Integers, Sequences, FiniteSets, TLC

VARIABLES
    argv,            \* the command line of the invocations
    environ,         \* the process environment of the invocations
    archives_dir,    \* archives/: the historical run archives and their logs
    results_dir,     \* lattice_test_results/: one marker file per attempted item
    lattice_file,    \* rustc_flag_lattice.json
    gap_report_file, \* gap_report.json
    run,             \* what the last invocation of main() did and produced
    prev,            \* the slices of the invocation before it, and what it read
    call             \* a direct call of the slice size calculator and the slice
                     \* builder: its arguments and what it returned

vars == <<argv, environ, archives_dir, results_dir, lattice_file, gap_report_file, run, prev,
          call>>

-----------------------------------------------------------------------------
(* Bounds of the model *)

MaxLogs == 2
MaxRunNumber == 11
MaxBatch == 2

-----------------------------------------------------------------------------
(* Sequences and strings *)

Range(s) == {s[i] : i \in 1..Len(s)}

\* Body applied to `value`, evaluated once: the assignment of a local variable
Bind(value, Body(_)) == CHOOSE r \in {Body(v) : v \in {value}} : TRUE

Max2(a, b) == IF a >= b THEN a ELSE b
Min2(a, b) == IF a <= b THEN a ELSE b

RECURSIVE SumInts(_)
SumInts(s) == IF s = <<>> THEN 0 ELSE Head(s) + SumInts(Tail(s))

RECURSIVE Flatten(_)
Flatten(ss) == IF ss = <<>> THEN <<>> ELSE Head(ss) \o Flatten(Tail(ss))

\* os.listdir: the entries of a directory, in an order the file system picks
RECURSIVE Listings(_)
Listings(S) ==
    IF S = {} THEN {<<>>}
    ELSE UNION {{<<x>> \o l : l \in Listings(S \ {x})} : x \in S}

\* str.endswith(suffix), the suffix being one token
EndsWith(s, suffix) == Len(s) >= 1 /\ s[Len(s)] = suffix

\* str.startswith(prefix), the prefix being one token
StartsWith(s, prefix) == Len(s) >= 1 /\ s[1] = prefix

\* str.replace(tok, ''): every occurrence of the token is removed
Remove(s, tok) == SelectSeq(s, LAMBDA t : t # tok)

\* str.split(sep): the pieces between the separators, empty pieces included
RECURSIVE SplitFrom(_, _, _, _)
SplitFrom(s, sep, i, piece) ==
    IF i > Len(s) THEN <<piece>>
    ELSE IF s[i] = sep THEN <<piece>> \o SplitFrom(s, sep, i + 1, <<>>)
    ELSE SplitFrom(s, sep, i + 1, Append(piece, s[i]))

Split(s, sep) == SplitFrom(s, sep, 1, <<>>)

-----------------------------------------------------------------------------
(* Exact arithmetic standing for Python floats *)

RECURSIVE GCD(_, _)
GCD(a, b) == IF b = 0 THEN a ELSE Bind(a % b, LAMBDA r : GCD(b, r))

Abs(x) == IF x < 0 THEN -x ELSE x

\* the rational n/d, d # 0, in lowest terms with a positive denominator
Rat(n, d) ==
    Bind(<<n, d, GCD(Abs(n), Abs(d))>>,
         LAMBDA q : IF q[2] < 0
                    THEN [n |-> -(q[1] \div q[3]), d |-> -(q[2] \div q[3])]
                    ELSE [n |-> q[1] \div q[3], d |-> q[2] \div q[3]])

RInt(k) == [n |-> k, d |-> 1]
RAdd(a, b) == Bind(<<a, b>>, LAMBDA q : Rat(q[1].n * q[2].d + q[2].n * q[1].d, q[1].d * q[2].d))
RMul(a, b) == Bind(<<a, b>>, LAMBDA q : Rat(q[1].n * q[2].n, q[1].d * q[2].d))
RDiv(a, b) == Bind(<<a, b>>, LAMBDA q : Rat(q[1].n * q[2].d, q[1].d * q[2].n))
RLess(a, b) == Bind(<<a, b>>, LAMBDA q : q[1].n * q[2].d < q[2].n * q[1].d)
RLeq(a, b) == Bind(<<a, b>>, LAMBDA q : q[1].n * q[2].d <= q[2].n * q[1].d)

\* int(x): truncation toward zero
RTrunc(a) == Bind(a, LAMBDA q : IF q.n >= 0 THEN q.n \div q.d ELSE -((-q.n) \div q.d))

RECURSIVE RSumFrom(_, _)
RSumFrom(s, i) ==
    IF i > Len(s) THEN RInt(0)
    ELSE Bind(RSumFrom(s, i + 1), LAMBDA rest : RAdd(s[i], rest))

\* sum() of a list of floats
RSum(s) == Bind(s, LAMBDA list : RSumFrom(list, 1))

\* statistics.mean of a non-empty list of whole seconds
Mean(s) == Bind(s, LAMBDA list : Rat(SumInts(list), Len(list)))

-----------------------------------------------------------------------------
(* The lattice records (generate_flag_lattice.py) *)

Digit(i) == <<"0", "1", "2", "3", "4", "5", "6", "7", "8", "9">>[i + 1]

opt_levels == <<"0", "1", "2", "3", "s", "z">>
debug_levels == <<"0", "1", "2">>
panic_flags == <<"unwind", "abort">>
lto_flags == <<"off", "thin", "fat">>
zos_features == <<"default", "all-plugins", "self-build", "core-only",
                  "extra-plugins", "notebooklm", "dynamic-loading">>

\* coord = f"L{i}.{j}.{k}.{l}"
Coord(i, j, k, l) == <<"L", Digit(i), ".", Digit(j), ".", Digit(k), ".", Digit(l)>>

\* the n-th combination (n = 0, 1, ...) of the four nested loops over the first
\* three optimisation levels, the debug levels, the panic and the lto settings
Combination(n) ==
    LET i == n \div 18
        j == (n \div 6) % 3
        k == (n \div 3) % 2
        l == n % 3
    IN  [opt_level |-> opt_levels[i + 1], debug_info |-> debug_levels[j + 1],
         panic |-> panic_flags[k + 1], lto |-> lto_flags[l + 1],
         coordinate |-> Coord(i, j, k, l)]

\* the loops stop at max_combinations, or when the 3*3*2*3 combinations are out
generate_lattice_coordinates(max_combinations) ==
    [n \in 1..Min2(Max2(max_combinations, 1), 54) |-> Combination(n - 1)]

generate_rustflags(combo) ==
    <<"-C opt-level=", combo.opt_level, " ", "-C debuginfo=", combo.debug_info, " ",
      "-C panic=", combo.panic, " ", "-C lto=", combo.lto>>

\* one record of the test matrix
TestCase(combo, feature) ==
    [coordinate |-> combo.coordinate,
     rustflags |-> generate_rustflags(combo),
     features |-> <<feature>>,
     profile |-> IF combo.opt_level \in {"0", "1"} THEN <<"dev">> ELSE <<"release">>]

\* every combination with each of the first n_features features, features innermost
generate_test_matrix(max_combinations, n_features) ==
    LET lattice == generate_lattice_coordinates(max_combinations)
    IN  [m \in 1..(Len(lattice) * n_features) |->
            TestCase(lattice[((m - 1) \div n_features) + 1],
                     zos_features[((m - 1) % n_features) + 1])]

-----------------------------------------------------------------------------
(* LatticePerformanceAnalyzer *)

None == [some |-> FALSE, v |-> 0]
Some(x) == [some |-> TRUE, v |-> x]

\* The content of a log file:
\*   kind "seconds":    a line "Finished ... target(s) in <s>s"
\*   kind "minutes":    a line "Finished ... target(s) in <m>m <s>s"
\*   kind "nofinish":   no line with "Finished" and "target(s) in"
\*   kind "unreadable": open() or read() raises (missing permission, bad encoding)
_extract_build_time(content) ==
    IF content.kind = "unreadable" THEN None
    ELSE IF content.kind = "seconds" THEN Some(content.s)
    ELSE IF content.kind = "minutes" THEN Some(content.m * 60)
    ELSE None

\* perf_stats as analyze_previous_runs creates it
default_avg_build_time == 60
DefaultPerfStats ==
    [avg_build_time |-> RInt(default_avg_build_time),
     success_rate |-> Rat(1, 2),
     coordinate_performance |-> <<>>,
     feature_performance |-> <<>>,
     total_tests_run |-> 0]

\* d.setdefault(key, []).append(value) on a dict of lists
DictAppend(dict, key, value) ==
    IF key \in DOMAIN dict THEN [dict EXCEPT ![key] = Append(@, value)]
    ELSE [x \in (DOMAIN dict) \cup {key} |-> IF x = key THEN <<value>> ELSE dict[x]]

\* the body of the loop over the files of an archive, for one file
AnalyzeLog(filename, content, acc) ==
    IF ~EndsWith(filename, ".log") THEN acc
    ELSE
        LET build_time == _extract_build_time(content)
            parts == Split(Remove(filename, ".log"), "_")
        IN  IF ~(build_time.some /\ build_time.v # 0) THEN acc
            ELSE IF Len(parts) >= 3
            THEN [build_times |-> Append(acc.build_times, build_time.v),
                  coordinate_performance |->
                      DictAppend(acc.coordinate_performance, parts[1], build_time.v),
                  feature_performance |->
                      DictAppend(acc.feature_performance, parts[2], build_time.v)]
            ELSE [acc EXCEPT !.build_times = Append(@, build_time.v)]

\* the loop over the files of an archive, left at the first file that cannot be read
RECURSIVE AnalyzeLogsUntilUnreadable(_, _, _)
AnalyzeLogsUntilUnreadable(logs, listing, acc) ==
    IF listing = <<>> THEN acc
    ELSE IF logs[Head(listing)].kind = "unreadable" THEN acc
    ELSE Bind(AnalyzeLog(Head(listing), logs[Head(listing)], acc),
              LAMBDA next : AnalyzeLogsUntilUnreadable(logs, Tail(listing), next))

RECURSIVE AnalyzeLogs(_, _, _)
AnalyzeLogs(logs, listing, acc) ==
    IF listing = <<>> THEN acc
    ELSE Bind(AnalyzeLog(Head(listing), logs[Head(listing)], acc),
              LAMBDA next : AnalyzeLogs(logs, Tail(listing), next))

\* archive = [readable, logs]; listing = os.listdir(archive_path)
_analyze_archive(archive, listing, perf_stats) ==
    IF ~archive.readable THEN perf_stats    \* os.listdir raises: warning, no change
    ELSE Bind(AnalyzeLogs(archive.logs, listing,
                  [build_times |-> <<>>,
                   coordinate_performance |-> perf_stats.coordinate_performance,
                   feature_performance |-> perf_stats.feature_performance]),
              LAMBDA acc :
                  [perf_stats EXCEPT
                      !.coordinate_performance = acc.coordinate_performance,
                      !.feature_performance = acc.feature_performance,
                      !.avg_build_time =
                          IF acc.build_times # <<>> THEN Mean(acc.build_times) ELSE @,
                      !.total_tests_run = @ + Len(acc.build_times)])

\* listing = os.listdir(archives_dir); log_listing[a] = os.listdir of archive a
RECURSIVE AnalyzeArchives(_, _, _, _)
AnalyzeArchives(entries, listing, log_listing, perf_stats) ==
    IF listing = <<>> THEN perf_stats
    ELSE Bind(IF StartsWith(Head(listing), "lattice_results_")
              THEN _analyze_archive(entries[Head(listing)], log_listing[Head(listing)],
                                    perf_stats)
              ELSE perf_stats,
              LAMBDA next : AnalyzeArchives(entries, Tail(listing), log_listing, next))

analyze_previous_runs(dir, listing, log_listing) ==
    IF dir.exists
    THEN AnalyzeArchives(dir.entries, listing, log_listing, DefaultPerfStats)
    ELSE DefaultPerfStats

-----------------------------------------------------------------------------
(* LibP2PCoordinator *)

\* _estimate_network_size as 1 + (run number mod 9)
EstimateOnePlusMod9(env) ==
    IF env.GITHUB_ACTIONS THEN Min2(20, 1 + (env.GITHUB_RUN_NUMBER % 9)) ELSE 1

\* env = [GITHUB_ACTIONS, GITHUB_RUN_NUMBER]
_estimate_network_size(env) ==
    IF env.GITHUB_ACTIONS
    THEN Min2(20, Max2(1, env.GITHUB_RUN_NUMBER % 10))
    ELSE 1

\* get_worker_capacity without the floor of one available worker
CapacityWithoutFloor(network_size) ==
    [total_workers |-> network_size,
     available_workers |-> network_size - 2,
     estimated_parallel_capacity |-> Min2(5, network_size)]

get_worker_capacity(network_size) ==
    [total_workers |-> network_size,
     available_workers |-> Max2(1, network_size - 2),
     estimated_parallel_capacity |-> Min2(5, network_size)]

-----------------------------------------------------------------------------
(* IntelligentSlicer *)

target_time == 600

\* _calculate_optimal_slice_size without the division by the success rate
SliceSizeIgnoringSuccessRate(perf_stats, capacity, requested_batch) ==
    [error |-> "",
     size |-> Min2(Max2(1, RTrunc(RDiv(RInt(target_time), perf_stats.avg_build_time))),
                   requested_batch * capacity.available_workers)]

\* Returns [error, size]: error is "" or the exception the function raises.
_calculate_optimal_slice_size(perf_stats, capacity, requested_batch) ==
    LET avg_time == perf_stats.avg_build_time
        success_rate == perf_stats.success_rate
        workers == capacity.available_workers
    IN  IF success_rate.n = 0
        THEN [error |-> "ZeroDivisionError", size |-> 0]
        ELSE
            LET effective_time_per_test == RDiv(avg_time, success_rate)
            IN  IF effective_time_per_test.n = 0
                THEN [error |-> "ZeroDivisionError", size |-> 0]
                ELSE
                    LET tests_per_slice ==
                            Max2(1, RTrunc(RDiv(RInt(target_time), effective_time_per_test)))
                    IN  [error |-> "",
                         size |-> Min2(tests_per_slice, requested_batch * workers)]

\* _get_tested_combinations keeping the ".result" suffix in the keys
TestedKeepingSuffix(dir) ==
    IF dir.exists THEN {f \in dir.files : EndsWith(f, ".result")} ELSE {}

\* dir = [exists, files]: the names of the files of the results directory
_get_tested_combinations(dir) ==
    IF dir.exists
    THEN {Remove(filename, ".result") : filename \in {f \in dir.files : EndsWith(f, ".result")}}
    ELSE {}

\* _matches_pattern comparing the two strings character by character
MatchesLiterally(coordinate, pattern) == coordinate = pattern

\* fnmatch.fnmatch on a POSIX system (no case folding), for patterns made of
\* literal characters, "*" and "?"
RECURSIVE _matches_pattern(_, _)
_matches_pattern(coordinate, pattern) ==
    IF pattern = <<>> THEN coordinate = <<>>
    ELSE IF Head(pattern) = "*"
    THEN \/ _matches_pattern(coordinate, Tail(pattern))
         \/ coordinate # <<>> /\ _matches_pattern(Tail(coordinate), pattern)
    ELSE /\ coordinate # <<>>
         /\ Head(pattern) = "?" \/ Head(pattern) = Head(coordinate)
         /\ _matches_pattern(Tail(coordinate), Tail(pattern))

auto == <<"a", "u", "t", "o">>

\* key = f"{item['coordinate']}_{item['features']}_{item['profile']}"
ItemKey(item) == item.coordinate \o <<"_">> \o item.features \o <<"_">> \o item.profile

\* _filter_work_items without the test against the attempted set
FilterIgnoringTested(lattice_data, tested, job_type, pattern, gap) ==
    IF job_type = "gap-fill"
    THEN IF gap.exists THEN gap.gaps ELSE <<>>
    ELSE SelectSeq(lattice_data,
            LAMBDA item : pattern = auto \/ _matches_pattern(item.coordinate, pattern))

\* gap = [exists, gaps]: gap_report.json and its 'gaps' list ([] without the field)
_filter_work_items(lattice_data, tested, job_type, pattern, gap) ==
    IF job_type = "gap-fill"
    THEN IF gap.exists THEN gap.gaps ELSE <<>>
    ELSE SelectSeq(lattice_data,
            LAMBDA item :
                /\ ItemKey(item) \notin tested
                /\ pattern = auto \/ _matches_pattern(item.coordinate, pattern))

DictMean(dict, key, default) == IF key \in DOMAIN dict THEN Mean(dict[key]) ELSE default

_predict_build_time(item, perf_stats) ==
    LET coord_avg == DictMean(perf_stats.coordinate_performance, item.coordinate,
                              perf_stats.avg_build_time)
        feature_avg == DictMean(perf_stats.feature_performance, item.features,
                                perf_stats.avg_build_time)
    IN  RAdd(RMul(coord_avg, Rat(6, 10)), RMul(feature_avg, Rat(4, 10)))

PredictAll(items, perf_stats) ==
    [i \in 1..Len(items) |-> _predict_build_time(items[i], perf_stats)]

_calculate_priority(slice_items, perf_stats) ==
    LET avg_time == RDiv(RSum(PredictAll(slice_items, perf_stats)), RInt(Len(slice_items)))
        unique_coords ==
            Cardinality({Split(slice_items[i].coordinate, ".")[1] : i \in 1..Len(slice_items)})
    IN  RAdd(RMul(RDiv(RInt(1), avg_time), RInt(100)), RInt(unique_coords * 10))

\* _create_slices without its sort
Unsorted(items, perf_stats) == items

\* list.sort(key=...): ascending and stable.  An item's place is one more than
\* the number of items that sort before it: those with a smaller key, and those
\* with the same key that stand before it in the list.
SortByTime(items, perf_stats) ==
    Bind(PredictAll(items, perf_stats),
         LAMBDA time :
             Bind([i \in 1..Len(items) |->
                      1 + Cardinality({j \in 1..Len(items) :
                                          \/ RLess(time[j], time[i])
                                          \/ time[j] = time[i] /\ j < i})],
                  LAMBDA place :
                      [p \in 1..Len(items) |->
                          items[CHOOSE i \in 1..Len(items) : place[i] = p]]))

\* range(0, n, step) for step # 0
RangeFrom0(n, step) ==
    IF step < 0 \/ n <= 0 THEN <<>>
    ELSE [k \in 1..((n + step - 1) \div step) |-> (k - 1) * step]

\* the slice work_items[i:i + slice_size + 1], one item too long
SliceItemsOverlapping(work_items, i, slice_size) ==
    SubSeq(work_items, i + 1, Min2(i + slice_size + 1, Len(work_items)))

\* the slice work_items[i:], without its upper end
SliceItemsToEnd(work_items, i, slice_size) == SubSeq(work_items, i + 1, Len(work_items))

\* work_items[i:i + slice_size], i counted from 0
SliceItems(work_items, i, slice_size) ==
    SubSeq(work_items, i + 1, Min2(i + slice_size, Len(work_items)))

\* one slice_info, for the slice that starts at item i (counted from 0)
SliceInfo(sorted, i, slice_size, perf_stats, slice_index, network_size) ==
    Bind(SliceItems(sorted, i, slice_size),
         LAMBDA slice_items :
             [slice_id |-> slice_index,
              items |-> slice_items,
              estimated_time |-> RSum(PredictAll(slice_items, perf_stats)),
              priority |-> _calculate_priority(slice_items, perf_stats),
              worker_assignment |-> slice_index % network_size])

\* Returns [error, slices]: error is "" or the exception the function raises.
_create_slices(work_items, slice_size, perf_stats, network_size) ==
    IF slice_size = 0
    THEN [error |-> "ValueError", slices |-> <<>>]   \* range() arg 3 must not be zero
    ELSE Bind(SortByTime(work_items, perf_stats),
              LAMBDA sorted :
                  [error |-> "",
                   slices |->
                      [k \in 1..Len(RangeFrom0(Len(sorted), slice_size)) |->
                          SliceInfo(sorted, RangeFrom0(Len(sorted), slice_size)[k],
                                    slice_size, perf_stats, k - 1, network_size)]])

\* What an invocation has done when nothing has been computed yet
NoRun ==
    [outcome |-> "none", error |-> "", reads |-> {},
     job_type |-> "", slice_pattern |-> auto, batch_size |-> 0,
     results_seen |-> [exists |-> FALSE, files |-> {}],
     perf_stats |-> DefaultPerfStats, network_size |-> 0,
     worker_capacity |-> get_worker_capacity(0), slice_size |-> 0,
     tested |-> {}, work_items |-> <<>>, slices |-> <<>>,
     plan |-> [written |-> FALSE, job_type |-> "", slice_pattern |-> auto,
               total_slices |-> 0, slices |-> <<>>]]

\* create_optimal_slices from the loading of the lattice on, r being the record of
\* the invocation so far
LoadAndSlice(r, job_type, slice_pattern) ==
    IF lattice_file.state = "missing"
    THEN [r EXCEPT !.outcome = "error", !.error = "FileNotFoundError"]
    ELSE IF lattice_file.state = "malformed"
    THEN [r EXCEPT !.outcome = "error", !.error = "JSONDecodeError"]
    ELSE
        Bind(_filter_work_items(lattice_file.data, _get_tested_combinations(results_dir),
                                job_type, slice_pattern, gap_report_file),
             LAMBDA work_items :
                 Bind(_create_slices(work_items, r.slice_size, r.perf_stats, r.network_size),
                      LAMBDA created :
                          [r EXCEPT
                              !.tested = _get_tested_combinations(results_dir),
                              !.work_items = work_items,
                              !.reads = @ \cup {"results"} \cup
                                  (IF job_type = "gap-fill" THEN {"gap_report"} ELSE {}),
                              !.outcome = IF created.error # "" THEN "error" ELSE "slices",
                              !.error = created.error,
                              !.slices = created.slices]))

\* create_optimal_slices, up to the exception that ends it.  reads: the files and
\* directories the invocation has looked at so far.
create_optimal_slices(job_type, slice_pattern, batch_size, listing, log_listing) ==
    Bind(analyze_previous_runs(archives_dir, listing, log_listing),
         LAMBDA perf_stats :
             Bind([NoRun EXCEPT
                      !.job_type = job_type, !.slice_pattern = slice_pattern,
                      !.batch_size = batch_size, !.results_seen = results_dir,
                      !.perf_stats = perf_stats,
                      !.network_size = _estimate_network_size(environ),
                      !.worker_capacity = get_worker_capacity(_estimate_network_size(environ)),
                      !.reads = {"archives"}],
                  LAMBDA r0 :
                      Bind(_calculate_optimal_slice_size(perf_stats, r0.worker_capacity,
                                                         batch_size),
                           LAMBDA optimal :
                               IF optimal.error # ""
                               THEN [r0 EXCEPT !.outcome = "error", !.error = optimal.error]
                               ELSE LoadAndSlice([r0 EXCEPT !.slice_size = optimal.size,
                                                            !.reads = @ \cup {"lattice"}],
                                                 job_type, slice_pattern))))

default_batch_size == 10

\* main(): the record of the invocation.  plan is slice_plan.json without its
\* 'timestamp' field, the time of day at which the file is written.
main(listing, log_listing) ==
    IF argv.argc < 2
    THEN [NoRun EXCEPT !.outcome = "usage"]
    ELSE
        Bind(create_optimal_slices(
                 argv.job_type,
                 IF argv.argc > 2 THEN argv.slice_pattern ELSE auto,
                 IF argv.argc > 3 THEN argv.batch_size ELSE default_batch_size,
                 listing, log_listing),
             LAMBDA r :
                 IF r.outcome = "error" THEN r
                 ELSE [r EXCEPT !.outcome = "plan",
                                !.plan = [written |-> TRUE, job_type |-> r.job_type,
                                          slice_pattern |-> r.slice_pattern,
                                          total_slices |-> Len(r.slices),
                                          slices |-> r.slices]])

-----------------------------------------------------------------------------
(* The actions *)

ArchiveListings ==
    IF archives_dir.exists THEN Listings(DOMAIN archives_dir.entries) ELSE {<<>>}

LogListings ==
    IF archives_dir.exists
    THEN {f \in [DOMAIN archives_dir.entries ->
                    UNION {Listings(DOMAIN archives_dir.entries[a].logs) :
                              a \in DOMAIN archives_dir.entries}] :
             \A a \in DOMAIN archives_dir.entries :
                 f[a] \in Listings(DOMAIN archives_dir.entries[a].logs)}
    ELSE {<<>>}

\* One invocation of the planner
Main ==
    \E listing \in ArchiveListings, log_listing \in LogListings :
        /\ run' = main(listing, log_listing)
        /\ prev' = [outcome |-> run.outcome, results_seen |-> run.results_seen,
                    slices |-> run.slices]
        /\ UNCHANGED <<argv, environ, archives_dir, results_dir, lattice_file, gap_report_file,
                       call>>

\* The items main() prints for execution are run: each leaves its result marker
ResultMarker(item) == ItemKey(item) \o <<".result">>

ExecuteFirstSlice ==
    /\ run.outcome = "plan"
    /\ run.slices # <<>>
    /\ results_dir' =
           [exists |-> TRUE,
            files |-> results_dir.files \cup
                      {ResultMarker(item) : item \in Range(run.slices[1].items)}]
    /\ UNCHANGED <<argv, environ, archives_dir, lattice_file, gap_report_file, run, prev, call>>

Next == Main \/ ExecuteFirstSlice

\* A direct call that has not been made yet
NoCall ==
    [stage |-> "none", perf_stats |-> DefaultPerfStats,
     capacity |-> get_worker_capacity(1), requested_batch |-> default_batch_size,
     work_items |-> <<>>, error |-> "", size |-> 0, slices |-> <<>>]

\* _calculate_optimal_slice_size(call.perf_stats, call.capacity, call.requested_batch)
CalculateOptimalSliceSize ==
    /\ call.stage = "args"
    /\ call' = Bind(_calculate_optimal_slice_size(call.perf_stats, call.capacity,
                                                  call.requested_batch),
                    LAMBDA optimal :
                        [call EXCEPT !.stage = IF optimal.error # "" THEN "raised" ELSE "sized",
                                     !.error = optimal.error,
                                     !.size = optimal.size])
    /\ UNCHANGED <<argv, environ, archives_dir, results_dir, lattice_file, gap_report_file,
                   run, prev>>

\* _create_slices(call.work_items, call.size, call.perf_stats)
CreateSlices ==
    /\ call.stage = "sized"
    /\ call' = Bind(_create_slices(call.work_items, call.size, call.perf_stats,
                                   call.capacity.total_workers),
                    LAMBDA created :
                        [call EXCEPT !.stage = IF created.error # "" THEN "raised" ELSE "sliced",
                                     !.error = created.error,
                                     !.slices = created.slices])
    /\ UNCHANGED <<argv, environ, archives_dir, results_dir, lattice_file, gap_report_file,
                   run, prev>>

NextCall == CalculateOptimalSliceSize \/ CreateSlices

-----------------------------------------------------------------------------
(* The inputs of the invocations *)

JobTypes == {"test", "gap-fill"}
Patterns == {auto, <<"L", "0", ".", "*">>, <<"*", ".", "*", ".", "0", ".", "*">>}

UsageArgv == [argc |-> 1, job_type |-> "", slice_pattern |-> auto, batch_size |-> default_batch_size]

Argvs ==
    {UsageArgv}
    \cup {[argc |-> 2, job_type |-> j, slice_pattern |-> auto, batch_size |-> default_batch_size] :
            j \in JobTypes}
    \cup {[argc |-> 3, job_type |-> j, slice_pattern |-> p, batch_size |-> default_batch_size] :
            j \in JobTypes, p \in Patterns}
    \cup {[argc |-> 4, job_type |-> j, slice_pattern |-> p, batch_size |-> b] :
            j \in JobTypes, p \in Patterns, b \in (-1)..MaxBatch}

LocalEnv == [GITHUB_ACTIONS |-> FALSE, GITHUB_RUN_NUMBER |-> 1]
RunnerEnvs == {[GITHUB_ACTIONS |-> TRUE, GITHUB_RUN_NUMBER |-> n] : n \in 0..MaxRunNumber}

\* rustc_flag_lattice.json
PatternLattice ==
    <<TestCase(Combination(0), "default"),      \* L0.0.0.0
      TestCase(Combination(18), "default"),     \* L1.0.0.0
      TestCase(Combination(6), "default")>>     \* L0.1.0.0
TwelveLattice == generate_test_matrix(6, 2)
MissingLattice == [state |-> "missing", data |-> <<>>]
MalformedLattice == [state |-> "malformed", data |-> <<>>]
LatticeFiles ==
    {MissingLattice, MalformedLattice}
    \cup {[state |-> "ok", data |-> d] : d \in {PatternLattice, TwelveLattice}}

\* lattice_test_results/
NoResults == [exists |-> FALSE, files |-> {}]
ResultsDirs ==
    {NoResults,
     [exists |-> TRUE, files |-> {}],
     [exists |-> TRUE, files |-> {ResultMarker(PatternLattice[1]), <<"README">>}]}

\* gap_report.json
NoGapReport == [exists |-> FALSE, gaps |-> <<>>]
GapReports ==
    {NoGapReport,
     [exists |-> TRUE, gaps |-> <<PatternLattice[1], PatternLattice[3]>>]}

\* archives/
ArchiveNames == {<<"lattice_results_", "1">>, <<"lattice_results_", "2">>}
LogNames ==
    {ItemKey(PatternLattice[1]) \o <<".log">>,
     <<"build", ".log">>}
LogContents ==
    {[kind |-> "seconds", m |-> 0, s |-> 10],
     [kind |-> "seconds", m |-> 0, s |-> 0],
     [kind |-> "minutes", m |-> 1, s |-> 5],
     [kind |-> "nofinish", m |-> 0, s |-> 0],
     [kind |-> "unreadable", m |-> 0, s |-> 0]}

\* the archives directory holding the logs `placed`, a function from
\* (archive, log name) pairs to contents, and the archives `broken`, which cannot
\* be listed
ArchivesWith(placed, broken) ==
    [exists |-> TRUE,
     entries |->
        [a \in {sl[1] : sl \in DOMAIN placed} \cup broken |->
            [readable |-> a \notin broken,
             logs |-> [f \in {sl[2] : sl \in {x \in DOMAIN placed : x[1] = a}} |->
                          placed[<<a, f>>]]]]]

NoArchives == [exists |-> FALSE, entries |-> <<>>]

\* every way of placing at most MaxLogs logs in the archives `names`
Placements(names) ==
    UNION {[slots -> LogContents] :
              slots \in {sl \in SUBSET (names \X LogNames) : Cardinality(sl) <= MaxLogs}}

ArchivesDirs ==
    {NoArchives}
    \cup {ArchivesWith(placed, {}) : placed \in Placements(ArchiveNames)}
    \cup UNION {{ArchivesWith(placed, {b}) : placed \in Placements(ArchiveNames \ {b})} :
                   b \in ArchiveNames}

\* one archive with a 10 s log, next to a directory that is no archive by its name
MixedArchives ==
    [exists |-> TRUE,
     entries |->
        [a \in {<<"lattice_results_", "1">>, <<"backup">>} |->
            [readable |-> TRUE,
             logs |-> [f \in {<<"build", ".log">>} |->
                          [kind |-> "seconds", m |-> 0,
                           s |-> IF a = <<"backup">> THEN 30 ELSE 10]]]]]

NoPrev == [outcome |-> "none", results_seen |-> NoResults, slices |-> <<>>]

\* every command line over every lattice, results directory and gap report
InitPlanning ==
    /\ argv \in Argvs
    /\ environ = LocalEnv
    /\ archives_dir = NoArchives
    /\ results_dir \in ResultsDirs
    /\ lattice_file \in LatticeFiles
    /\ gap_report_file \in GapReports

\* every archives directory
InitHistory ==
    /\ argv = [argc |-> 4, job_type |-> "test", slice_pattern |-> auto, batch_size |-> 2]
    /\ environ = LocalEnv
    /\ archives_dir \in ArchivesDirs
    /\ results_dir = NoResults
    /\ lattice_file = [state |-> "ok", data |-> PatternLattice]
    /\ gap_report_file = NoGapReport

\* every runner environment and batch size
InitCapacity ==
    /\ argv \in {a \in Argvs : a.job_type = "test" /\ a.slice_pattern = auto /\ a.argc # 3}
    /\ environ \in RunnerEnvs
    /\ archives_dir \in {NoArchives, MixedArchives}
    /\ results_dir = NoResults
    /\ lattice_file = [state |-> "ok", data |-> TwelveLattice]
    /\ gap_report_file = NoGapReport

Init ==
    /\ InitPlanning \/ InitHistory \/ InitCapacity
    /\ run = NoRun
    /\ prev = NoPrev
    /\ call = NoCall

Spec == Init /\ [][Next]_vars

\* Repeated planning in normal mode over the whole lattice, each plan's first
\* slice being executed before long; every log of the archives carries a duration
\* (the others leave no trace in a plan)
InitConverge ==
    /\ Init
    /\ argv.argc >= 2
    /\ argv.job_type = "test"
    /\ argv.argc > 2 => argv.slice_pattern = auto
    /\ argv.argc > 3 => argv.batch_size >= 1
    /\ lattice_file.state = "ok"
    /\ archives_dir.exists =>
           \A a \in DOMAIN archives_dir.entries :
               /\ archives_dir.entries[a].readable
               /\ \A f \in DOMAIN archives_dir.entries[a].logs :
                      /\ _extract_build_time(archives_dir.entries[a].logs[f]).some
                      /\ _extract_build_time(archives_dir.entries[a].logs[f]).v > 0

SpecConverge ==
    InitConverge /\ [][Next]_vars /\ WF_vars(Main) /\ WF_vars(ExecuteFirstSlice)

\* The arguments of the direct calls: every profile over these averages and
\* success rates, every capacity snapshot get_worker_capacity can return, every
\* batch size, and a work list of each length
AvgBuildTimes == {Rat(1, 2), RInt(10), RInt(35), RInt(60), RInt(601), RInt(1200)}
SuccessRates == {RInt(0), Rat(1, 4), Rat(1, 2), RInt(1)}
Profiles ==
    {[DefaultPerfStats EXCEPT !.avg_build_time = a, !.success_rate = r] :
        a \in AvgBuildTimes, r \in SuccessRates}
NetworkSizes == {_estimate_network_size(env) : env \in RunnerEnvs \cup {LocalEnv}}
Capacities == {get_worker_capacity(n) : n \in NetworkSizes}
WorkLists == {<<>>, SubSeq(PatternLattice, 1, 1), PatternLattice, TwelveLattice}

InitCall ==
    /\ argv = UsageArgv
    /\ environ = LocalEnv
    /\ archives_dir = NoArchives
    /\ results_dir = NoResults
    /\ lattice_file = MissingLattice
    /\ gap_report_file = NoGapReport
    /\ run = NoRun
    /\ prev = NoPrev
    /\ call \in {[NoCall EXCEPT !.stage = "args", !.perf_stats = p, !.capacity = c,
                                !.requested_batch = b, !.work_items = w] :
                     p \in Profiles, c \in Capacities, b \in 0..MaxBatch, w \in WorkLists}

\* the slice size calculator and the slice builder called on their own
SpecSliceSize == InitCall /\ [][NextCall]_vars

-----------------------------------------------------------------------------
(* Properties *)

\* the invocation got as far as computing the slice size
Sized == run.outcome \in {"plan", "error"} /\ run.error # "ZeroDivisionError"

\* the invocation got as far as filtering the work items
Filtered == "results" \in run.reads

Planned == run.outcome = "plan"

SliceLengths == [k \in 1..Len(run.slices) |-> Len(run.slices[k].items)]
PlannedItems == Flatten([k \in 1..Len(run.slices) |-> run.slices[k].items])

Count(seq, x) == Cardinality({i \in 1..Len(seq) : seq[i] = x})

\* C1 as stated: in every job mode, no item returned by the Work Item Filter has
\* its key coordinate_feature_profile in the attempted set.
C1_FilterExcludesAttemptedInEveryMode ==
    Filtered =>
        \A i \in 1..Len(run.work_items) : ItemKey(run.work_items[i]) \notin run.tested

\* C1 amended: in normal mode (any job type but gap-fill), no item returned by the
\* Work Item Filter has its key in the attempted set built from the results
\* directory; and the attempted set is the set of marker names without ".result".
C1_FilterExcludesAttempted ==
    (Filtered /\ run.job_type # "gap-fill") =>
        /\ \A i \in 1..Len(run.work_items) :
               ResultMarker(run.work_items[i]) \notin run.results_seen.files
        /\ \A i \in 1..Len(run.work_items) : ItemKey(run.work_items[i]) \notin run.tested

C1_Witness ==
    /\ Filtered
    /\ run.job_type = "test"
    /\ run.work_items # <<>>
    /\ \E i \in 1..Len(lattice_file.data) : ItemKey(lattice_file.data[i]) \in run.tested

\* C2: with a slice size of at least 1, the items of the slices, taken in slice
\* order, are the work items in ascending order of predicted duration: each work
\* item occurs as often among them as in the work list (none lost, none
\* duplicated) and no item is followed by one predicted faster.
C2_SlicesPartitionSortedItems ==
    (Planned /\ run.slice_size >= 1) =>
        /\ Len(PlannedItems) = Len(run.work_items)
        /\ \A i \in 1..Len(run.work_items) :
               Count(PlannedItems, run.work_items[i]) = Count(run.work_items, run.work_items[i])
        /\ \A i \in 1..(Len(PlannedItems) - 1) :
               RLeq(_predict_build_time(PlannedItems[i], run.perf_stats),
                    _predict_build_time(PlannedItems[i + 1], run.perf_stats))

C2_Witness ==
    /\ Planned
    /\ run.slice_size >= 1
    /\ Len(run.slices) >= 2
    /\ PlannedItems # run.work_items

\* C3: with a slice size s of at least 1, every slice but the last has exactly s
\* items and the last has between 1 and s items.
C3_SliceSizes ==
    (Planned /\ run.slice_size >= 1) =>
        \A k \in 1..Len(run.slices) :
            /\ k < Len(run.slices) => SliceLengths[k] = run.slice_size
            /\ SliceLengths[k] >= 1
            /\ SliceLengths[k] <= run.slice_size

C3_Witness ==
    /\ Planned
    /\ Len(run.slices) >= 3
    /\ SliceLengths[Len(run.slices)] < run.slice_size
    /\ SliceLengths[1] = run.slice_size

\* C4 as stated: two consecutive planning runs over the same lattice, archives,
\* results directory and capacity source produce the same slices (contents,
\* order, estimated durations, priority scores), whatever the listing orders.
\* The command line, environment, archives and lattice never change; the results
\* directory is the same when both runs saw the same one.
C4_ConsecutivePlansIdentical ==
    (Planned /\ prev.outcome = "plan" /\ prev.results_seen = run.results_seen) =>
        prev.slices = run.slices

\* The logs whose duration the archive scan keeps: the .log files of the listable
\* archives named lattice_results_*, with a completion line and a duration other
\* than 0 (a duration of 0 s is discarded like a missing one).
ScannedLogs ==
    IF ~archives_dir.exists THEN {}
    ELSE UNION {{<<a, f>> : f \in {g \in DOMAIN archives_dir.entries[a].logs :
                                     /\ EndsWith(g, ".log")
                                     /\ archives_dir.entries[a].readable
                                     /\ StartsWith(a, "lattice_results_")
                                     /\ _extract_build_time(archives_dir.entries[a].logs[g]).some
                                     /\ _extract_build_time(archives_dir.entries[a].logs[g]).v # 0}} :
                   a \in DOMAIN archives_dir.entries}

RECURSIVE TotalDuration(_)
TotalDuration(logs) ==
    IF logs = {} THEN 0
    ELSE LET x == CHOOSE y \in logs : TRUE
         IN  _extract_build_time(archives_dir.entries[x[1]].logs[x[2]]).v
             + TotalDuration(logs \ {x})

\* C5 as stated: after the scan the profile's average duration is the mean of all
\* durations of all logs of all archives together, and 60 when there is none.
C5_AverageIsMeanOfAllDurations ==
    run.outcome \in {"plan", "error"} =>
        run.perf_stats.avg_build_time =
            IF ScannedLogs = {} THEN RInt(60)
            ELSE Rat(TotalDuration(ScannedLogs), Cardinality(ScannedLogs))

\* C6: the slice size is min(max(1, floor(600 / (average / success rate))),
\* batch * available workers); with no history (average 60, success rate 1/2),
\* batch 10 and 1 available worker it is 5, and 12 work items are planned as
\* slices of 5, 5 and 2 items.
C6_SliceSize ==
    Sized =>
        LET avg == run.perf_stats.avg_build_time
            rate == run.perf_stats.success_rate
            workers == run.worker_capacity.available_workers
            quotient == (600 * rate.n * avg.d) \div (rate.d * avg.n)
        IN  /\ avg.n > 0 /\ rate.n > 0
            /\ run.slice_size = Min2(Max2(1, quotient), run.batch_size * workers)
            /\ (run.perf_stats.total_tests_run = 0 /\ run.batch_size = 10 /\ workers = 1) =>
                   /\ avg = RInt(60) /\ rate = Rat(1, 2)
                   /\ run.slice_size = 5
                   /\ (Planned /\ Len(run.work_items) = 12) => SliceLengths = <<5, 5, 2>>

C6_Witness ==
    /\ Planned
    /\ run.perf_stats.total_tests_run = 0
    /\ run.batch_size = 10
    /\ run.worker_capacity.available_workers = 1
    /\ Len(run.work_items) = 12
    /\ SliceLengths = <<5, 5, 2>>

\* C7 as stated: under the CI runner the estimated worker count is
\* min(20, 1 + (n mod 9)) for run number n; elsewhere it is 1.
C7_NetworkSizeOnePlusMod9 ==
    Sized =>
        run.network_size =
            IF environ.GITHUB_ACTIONS THEN Min2(20, 1 + (environ.GITHUB_RUN_NUMBER % 9)) ELSE 1

\* C7 amended: under the CI runner the estimated worker count is the last decimal
\* digit of the run number n, and 1 when that digit is 0 (max(1, n mod 10), which
\* the cap of 20 never touches); elsewhere it is 1.
C7_NetworkSize ==
    Sized =>
        LET digit == environ.GITHUB_RUN_NUMBER % 10
        IN  /\ (environ.GITHUB_ACTIONS /\ digit = 0) => run.network_size = 1
            /\ (environ.GITHUB_ACTIONS /\ digit # 0) => run.network_size = digit
            /\ ~environ.GITHUB_ACTIONS => run.network_size = 1

C7_Witness ==
    /\ Planned
    /\ environ.GITHUB_ACTIONS
    /\ environ.GITHUB_RUN_NUMBER = 9
    /\ run.network_size = 9

\* C8 as stated: an invocation with a batch size <= 0 reads neither the archives
\* nor the lattice nor the results directory, and does not write a plan.
C8_NonPositiveBatchRejectedBeforeIO ==
    (run.outcome # "none" /\ argv.argc > 3 /\ argv.batch_size <= 0) =>
        /\ run.reads = {}
        /\ ~run.plan.written

\* C9 as stated: in gap-fill mode without a gap report the filter returns an
\* empty list and the run writes a plan with total_slices 0 and no slice,
\* whatever the lattice file, the results directory and the pattern are.
C9_GapFillWithoutReportWritesEmptyPlan ==
    (run.outcome \in {"plan", "error"} /\ run.job_type = "gap-fill" /\ ~gap_report_file.exists) =>
        /\ run.work_items = <<>>
        /\ run.plan.written
        /\ run.plan.total_slices = 0
        /\ run.plan.slices = <<>>

\* the keys of the lattice items that have no result marker yet
Untested ==
    {ItemKey(lattice_file.data[i]) : i \in 1..Len(lattice_file.data)}
        \ _get_tested_combinations(results_dir)

\* the last invocation planned over the results directory as it is now
Fresh == Planned /\ run.results_seen = results_dir

\* C10: under repeated normal-mode invocations with pattern "auto" and a batch
\* size of at least 1, each first slice being executed and leaving a result marker
\* per item: the execution that follows an invocation that found untested items
\* strictly shrinks the set of untested lattice items, no step ever grows it, and
\* eventually an invocation finds nothing left and writes a plan with zero slices.
C10_ConvergesToFullCoverage ==
    /\ [][/\ (Fresh /\ Untested # {} /\ results_dir' # results_dir) =>
                (Untested' \subseteq Untested /\ Untested' # Untested)
          /\ (Fresh /\ Untested # {}) => (run.slices # <<>> /\ ENABLED ExecuteFirstSlice)
          /\ Untested' \subseteq Untested]_vars
    /\ <>(Fresh /\ Untested = {} /\ run.work_items = <<>> /\ run.plan.total_slices = 0)

C10_Witness ==
    /\ Fresh
    /\ Untested = {}
    /\ lattice_file.data # <<>>
    /\ run.plan.written
    /\ run.plan.total_slices = 0
    /\ prev.outcome = "plan"
    /\ prev.slices # <<>>

-----------------------------------------------------------------------------
(* The Work Item Filter in normal mode *)

\* What the patterns of the model match, said without the matcher: "L0.*" is
\* every coordinate that begins with L0. ; "*.*.0.*" is every coordinate with a
\* dot somewhere and, further on, the three characters .0.
GlobMatches(coordinate, pattern) ==
    IF pattern = <<"L", "0", ".", "*">>
    THEN Len(coordinate) >= 3 /\ SubSeq(coordinate, 1, 3) = <<"L", "0", ".">>
    ELSE IF pattern = <<"*", ".", "*", ".", "0", ".", "*">>
    THEN \E p \in 1..Len(coordinate), q \in 1..(Len(coordinate) - 2) :
             /\ p < q
             /\ coordinate[p] = "."
             /\ SubSeq(coordinate, q, q + 2) = <<".", "0", ".">>
    ELSE coordinate = pattern

\* the places in the lattice of the items the filter is to keep
KeptPlaces ==
    {i \in 1..Len(lattice_file.data) :
        /\ ItemKey(lattice_file.data[i]) \notin run.tested
        /\ run.slice_pattern = auto
               \/ GlobMatches(lattice_file.data[i].coordinate, run.slice_pattern)}

\* C11: in normal mode the Work Item Filter returns exactly the lattice items
\* whose key is not in the attempted set and whose coordinate glob-matches the
\* pattern (every unattempted item for "auto"), in the order of the lattice; for
\* "L0.*" over L0.0.0.0, L1.0.0.0, L0.1.0.0 with nothing attempted these are the
\* first and the third item.
C11_FilterKeepsMatchingUnattemptedInOrder ==
    (Filtered /\ run.job_type # "gap-fill") =>
        /\ Len(run.work_items) = Cardinality(KeptPlaces)
        /\ \A k \in 1..Len(run.work_items) :
               \E i \in KeptPlaces :
                   /\ Cardinality({j \in KeptPlaces : j <= i}) = k
                   /\ run.work_items[k] = lattice_file.data[i]
        /\ (/\ run.slice_pattern = <<"L", "0", ".", "*">>
            /\ lattice_file.data = PatternLattice
            /\ run.tested = {}) =>
               run.work_items = <<PatternLattice[1], PatternLattice[3]>>

C11_Witness ==
    /\ Filtered
    /\ run.job_type = "test"
    /\ run.slice_pattern = <<"L", "0", ".", "*">>
    /\ lattice_file.data = PatternLattice
    /\ run.tested = {}
    /\ run.work_items = <<PatternLattice[1], PatternLattice[3]>>

-----------------------------------------------------------------------------
(* Predicted durations and the order of a plan *)

\* the duration a log states, read off its completion line; 0 when it states none
Duration(content) ==
    IF content.kind = "seconds" THEN content.s
    ELSE IF content.kind = "minutes" THEN 60 * content.m
    ELSE 0

\* the logs of the archives that state a duration other than 0: (archive, file
\* name) pairs
LogsWithDuration ==
    IF ~archives_dir.exists THEN {}
    ELSE {x \in UNION {{<<a, f>> : f \in DOMAIN archives_dir.entries[a].logs} :
                          a \in DOMAIN archives_dir.entries} :
             /\ StartsWith(x[1], "lattice_results_")
             /\ archives_dir.entries[x[1]].readable
             /\ EndsWith(x[2], ".log")
             /\ Duration(archives_dir.entries[x[1]].logs[x[2]]) # 0}

\* coordinate and feature a log is named after, when its name has the three parts
NameParts(filename) == Split(Remove(filename, ".log"), "_")
LogsOfCoordinate(coordinate) ==
    {x \in LogsWithDuration : Len(NameParts(x[2])) >= 3 /\ NameParts(x[2])[1] = coordinate}
LogsOfFeature(features) ==
    {x \in LogsWithDuration : Len(NameParts(x[2])) >= 3 /\ NameParts(x[2])[2] = features}

RECURSIVE SumOfDurations(_)
SumOfDurations(logs) ==
    IF logs = {} THEN 0
    ELSE LET x == CHOOSE y \in logs : TRUE
         IN  Duration(archives_dir.entries[x[1]].logs[x[2]]) + SumOfDurations(logs \ {x})

\* the mean of the durations of `logs`, the overall average when there is none
ObservedMean(logs) ==
    IF logs = {} THEN run.perf_stats.avg_build_time
    ELSE Rat(SumOfDurations(logs), Cardinality(logs))

\* 0.6 * (mean of the coordinate's durations) + 0.4 * (mean of the feature's)
PredictedDuration(item) ==
    LET c == ObservedMean(LogsOfCoordinate(item.coordinate))
        f == ObservedMean(LogsOfFeature(item.features))
    IN  Rat(6 * c.n * f.d + 4 * f.n * c.d, 10 * c.d * f.d)

\* C12: in every plan the items stand in non-decreasing predicted duration across
\* the whole plan: every item of a slice is predicted no slower than every item of
\* a later slice (slice 0 holds the fastest) and than the items after it in its own
\* slice; the predicted duration is 0.6 times the mean of the durations observed
\* for the item's coordinate plus 0.4 times the mean of those observed for its
\* feature, the overall average standing in for a mean with no observation.
C12_PlanOrderedByPredictedDuration ==
    Planned =>
        /\ \A i \in 1..Len(run.work_items) :
               _predict_build_time(run.work_items[i], run.perf_stats)
                   = PredictedDuration(run.work_items[i])
        /\ \A i \in 1..Len(run.slices), j \in 1..Len(run.slices) :
               i < j =>
                   \A a \in Range(run.slices[i].items), b \in Range(run.slices[j].items) :
                       RLeq(PredictedDuration(a), PredictedDuration(b))
        /\ \A k \in 1..Len(run.slices) :
               \A m \in 1..(Len(run.slices[k].items) - 1) :
                   RLeq(PredictedDuration(run.slices[k].items[m]),
                        PredictedDuration(run.slices[k].items[m + 1]))

C12_Witness ==
    /\ Planned
    /\ Len(run.slices) >= 2
    /\ PlannedItems # run.work_items
    /\ \E a \in Range(run.slices[1].items), b \in Range(run.slices[2].items) :
           RLess(PredictedDuration(a), PredictedDuration(b))
    /\ LogsOfCoordinate(run.slices[1].items[1].coordinate) = {}
    /\ LogsOfFeature(run.slices[1].items[1].features) # {}

-----------------------------------------------------------------------------
(* The slice size calculator called on its own *)

\* the call of _calculate_optimal_slice_size has ended, by a return or an exception
Calculated == call.stage \in {"raised", "sized", "sliced"}

\* C13 as stated: called with a profile whose success rate is 0, the slice size
\* calculator does not fail with a division error: it returns a slice size (or
\* ends in an error outcome of its own).
C13_ZeroSuccessRateGuarded ==
    (Calculated /\ call.perf_stats.success_rate = RInt(0)) =>
        call.error # "ZeroDivisionError"

-----------------------------------------------------------------------------
(* The archive scan over corrupt entries *)

\* the archives of the logs that state a duration
ArchivesWithDuration == {x[1] : x \in LogsWithDuration}

\* the logs that state a duration and are named after a coordinate and a feature
NamedLogs == {x \in LogsWithDuration : Len(NameParts(x[2])) >= 3}

\* C14: an archive that cannot be listed, a log that cannot be read or decoded and
\* a log without a completion line are skipped and never end the scan: the run
\* goes on with a profile in which every other log that states a duration (other
\* than 0 s, which the scan takes for no duration) is counted once, its duration stands under its coordinate and its feature, and
\* the average is the mean of the durations of an archive that has some (60 when
\* no archive has).
C14_CorruptEntriesAreSkipped ==
    run.outcome \in {"plan", "error"} =>
        LET profile == run.perf_stats
        IN  /\ "archives" \in run.reads
            /\ run.error # "" => "lattice" \in run.reads
            /\ profile.total_tests_run = Cardinality(LogsWithDuration)
            /\ DOMAIN profile.coordinate_performance = {NameParts(x[2])[1] : x \in NamedLogs}
            /\ DOMAIN profile.feature_performance = {NameParts(x[2])[2] : x \in NamedLogs}
            /\ \A c \in DOMAIN profile.coordinate_performance :
                   /\ Len(profile.coordinate_performance[c]) = Cardinality(LogsOfCoordinate(c))
                   /\ SumInts(profile.coordinate_performance[c])
                          = SumOfDurations(LogsOfCoordinate(c))
            /\ \A f \in DOMAIN profile.feature_performance :
                   /\ Len(profile.feature_performance[f]) = Cardinality(LogsOfFeature(f))
                   /\ SumInts(profile.feature_performance[f]) = SumOfDurations(LogsOfFeature(f))
            /\ IF LogsWithDuration = {}
               THEN profile.avg_build_time = RInt(60)
               ELSE \E a \in ArchivesWithDuration :
                        LET logs == {x \in LogsWithDuration : x[1] = a}
                        IN  profile.avg_build_time
                                = Rat(SumOfDurations(logs), Cardinality(logs))

C14_Witness ==
    /\ Planned
    /\ \E a \in DOMAIN archives_dir.entries : ~archives_dir.entries[a].readable
    /\ \E a \in DOMAIN archives_dir.entries :
           \E f \in DOMAIN archives_dir.entries[a].logs :
               archives_dir.entries[a].logs[f].kind = "unreadable"
    /\ run.perf_stats.total_tests_run = 1


\* the arguments of the call are those C15 speaks of: a batch size of at least 1,
\* a positive average duration and a success rate in (0, 1]
UsualArguments ==
    /\ call.requested_batch >= 1
    /\ call.perf_stats.avg_build_time.n > 0
    /\ call.perf_stats.success_rate.n > 0
    /\ RLeq(call.perf_stats.success_rate, RInt(1))

\* C15: every capacity snapshot has at least one available worker; with a batch
\* size of at least 1, a positive average duration and a success rate in (0, 1]
\* the slice size calculator returns a size of at least 1, and the slice builder
\* then cuts a non-empty work list into at least one slice, none of them empty.
C15_SliceSizeAtLeastOne ==
    /\ call.capacity.available_workers >= 1
    /\ (Calculated /\ UsualArguments) =>
           /\ call.error = ""
           /\ call.size >= 1
    /\ (call.stage = "sliced" /\ UsualArguments /\ call.work_items # <<>>) =>
           /\ Len(call.slices) >= 1
           /\ \A k \in 1..Len(call.slices) : call.slices[k].items # <<>>

C15_Witness ==
    /\ call.stage = "sliced"
    /\ UsualArguments
    /\ call.perf_stats.avg_build_time = RInt(1200)
    /\ call.size = 1
    /\ call.work_items = TwelveLattice
    /\ Len(call.slices) = 12

====
